---- MODULE Spec2Model ----
(***************************************************************************)
(* Model of save-credentials.py: a command-line entry point that parses    *)
(* one required option, --token, with argparse and hands its value to      *)
(* QiskitRuntimeService.save_account(channel="ibm_quantum", token=...,     *)
(* overwrite=True).                                                        *)
(*                                                                         *)
(* A command-line word is a sequence of one-character strings, so that the *)
(* parser's prefix matching, "=" splitting and negative-number test are    *)
(* computed on the characters.  The words "--" and clustered short options *)
(* ("-hx") are outside the modelled vocabulary.                            *)
(***************************************************************************)
EXTENDS Integers, Sequences, FiniteSets, TLC

VARIABLES run, name, argv, pc, parser, args, calls, account,
          exit_code, stdout, stderr, raised

vars == <<run, name, argv, pc, parser, args, calls, account,
          exit_code, stdout, stderr, raised>>

----------------------------------------------------------------------------
(* Bounds *)

MaxArgs == 2

MaxRuns == 2

----------------------------------------------------------------------------
(* Command-line vocabulary *)

W_token == <<"-", "-", "t", "o", "k", "e", "n">>

W_tok == <<"-", "-", "t", "o", "k">>

W_token_eq_ab == <<"-", "-", "t", "o", "k", "e", "n", "=", "a", "b">>

W_help == <<"-", "-", "h", "e", "l", "p">>

W_h == <<"-", "h">>

W_help_eq_ab == <<"-", "-", "h", "e", "l", "p", "=", "a", "b">>

W_ab == <<"a", "b">>

W_empty == <<>>

W_x == <<"-", "x">>

W_bogus == <<"-", "-", "v">>

W_neg5 == <<"-", "5">>

Words == {W_token, W_tok, W_token_eq_ab, W_help, W_h, W_help_eq_ab,
          W_ab, W_empty, W_x, W_bogus, W_neg5}

RECURSIVE SeqsUpTo(_, _)
SeqsUpTo(S, n) ==
    IF n = 0 THEN {<<>>}
    ELSE LET shorter == SeqsUpTo(S, n - 1)
         IN  shorter \cup {Append(s, w) : s \in {t \in shorter : Len(t) = n - 1}, w \in S}

\* Longer command lines of interest: help or an unknown flag after a
\* complete token option, the token option given twice, words before it.
LongArgvs ==
    {<<W_token, W_ab, W_help>>, <<W_token, W_ab, W_bogus>>,
     <<W_help, W_token, W_ab>>, <<W_x, W_tok, W_empty>>,
     <<W_token, W_ab, W_token, W_neg5>>, <<W_token_eq_ab, W_token, W_empty, W_h>>}

\* The command lines tried: every one of up to MaxArgs words, and the
\* longer ones above.
Argvs == SeqsUpTo(Words, MaxArgs) \cup LongArgvs

ModuleNames == {"__main__", "save_credentials"}

\* Exceptions the external call may raise (network, permissions, invalid token).
Exceptions == {"InvalidAccountError", "OSError"}

AccountAlreadyExistsError == "AccountAlreadyExistsError"

None == [has |-> FALSE, val |-> <<>>]

Some(v) == [has |-> TRUE, val |-> v]

----------------------------------------------------------------------------
(* String helpers *)

StartsWith(s, p) == Len(p) <= Len(s) /\ SubSeq(s, 1, Len(p)) = p

Contains(s, c) == \E i \in 1..Len(s) : s[i] = c

\* Index of the first occurrence of c in s (s must contain c).
IndexOf(s, c) == CHOOSE i \in 1..Len(s) : s[i] = c /\ \A j \in 1..(i - 1) : s[j] # c

Digits == {"0", "1", "2", "3", "4", "5", "6", "7", "8", "9"}

AllDigits(s) == \A i \in 1..Len(s) : s[i] \in Digits

\* argparse._negative_number_matcher: '^-\d+$|^-\d*\.\d+$'
NegativeNumberLike(s) ==
    /\ Len(s) >= 2
    /\ s[1] = "-"
    /\ LET rest == SubSeq(s, 2, Len(s))
       IN  \/ AllDigits(rest)
           \/ /\ Contains(rest, ".")
              /\ LET d == IndexOf(rest, ".")
                 IN  /\ d < Len(rest)
                     /\ AllDigits(SubSeq(rest, 1, d - 1))
                     /\ AllDigits(SubSeq(rest, d + 1, Len(rest)))

----------------------------------------------------------------------------
(* The argument parser (argparse, as configured by lines 5-6) *)

\* argparse.ArgumentParser(): add_help defaults to True, which registers
\* -h/--help (a zero-argument action that prints help and exits 0).
HelpAction ==
    [option_strings |-> {W_h, W_help}, dest |-> "help", nargs |-> 0,
     required |-> FALSE, kind |-> "help"]

\* Variant: required=True left out.
TokenAction_optional ==
    [option_strings |-> {W_token}, dest |-> "token", nargs |-> 1,
     required |-> FALSE, kind |-> "store"]

\* parser.add_argument("--token", help=..., required=True): a store action
\* taking exactly one argument string, with no type conversion.
TokenAction ==
    [option_strings |-> {W_token}, dest |-> "token", nargs |-> 1,
     required |-> TRUE, kind |-> "store"]

\* Variant: ArgumentParser(add_help=False).
ArgumentParser_no_help == <<>>

ArgumentParser == <<HelpAction>>

add_argument(p) == Append(p, TokenAction)

OptionStrings(p) == UNION {p[i].option_strings : i \in DOMAIN p}

ActionOf(p, s) == CHOOSE i \in DOMAIN p : s \in p[i].option_strings

Positional == [kind |-> "A", action |-> 0, option_string |-> <<>>, explicit_arg |-> None]

Ambiguous == [kind |-> "ambiguous", action |-> 0, option_string |-> <<>>, explicit_arg |-> None]

Optional(a, s, e) == [kind |-> "O", action |-> a, option_string |-> s, explicit_arg |-> e]

BeforeEq(s) == SubSeq(s, 1, IndexOf(s, "=") - 1)

AfterEq(s) == SubSeq(s, IndexOf(s, "=") + 1, Len(s))

\* argparse._get_option_tuples (allow_abbrev is True); arg has length >= 2
\* and starts with "-".
get_option_tuples(p, arg) ==
    IF arg[2] = "-"
    THEN LET option_prefix == IF Contains(arg, "=") THEN BeforeEq(arg) ELSE arg
             explicit_arg == IF Contains(arg, "=") THEN Some(AfterEq(arg)) ELSE None
         IN  {Optional(ActionOf(p, os), os, explicit_arg) :
                 os \in {o \in OptionStrings(p) : StartsWith(o, option_prefix)}}
    ELSE LET short_option_prefix == SubSeq(arg, 1, 2)
             short_explicit_arg == SubSeq(arg, 3, Len(arg))
         IN  {Optional(ActionOf(p, os), os,
                       IF os = short_option_prefix THEN Some(short_explicit_arg) ELSE None) :
                 os \in {o \in OptionStrings(p) :
                            o = short_option_prefix \/ StartsWith(o, arg)}}

\* argparse._parse_optional: how one command-line word is classified.
parse_optional(p, arg) ==
    IF arg = <<>> THEN Positional
    ELSE IF arg[1] # "-" THEN Positional
    ELSE IF arg \in OptionStrings(p) THEN Optional(ActionOf(p, arg), arg, None)
    ELSE IF Len(arg) = 1 THEN Positional
    ELSE IF Contains(arg, "=") /\ BeforeEq(arg) \in OptionStrings(p)
         THEN Optional(ActionOf(p, BeforeEq(arg)), BeforeEq(arg), Some(AfterEq(arg)))
    ELSE LET option_tuples == get_option_tuples(p, arg)
         IN  IF Cardinality(option_tuples) > 1 THEN Ambiguous
             ELSE IF Cardinality(option_tuples) = 1
                  THEN CHOOSE t \in option_tuples : TRUE
             ELSE IF NegativeNumberLike(arg) THEN Positional
             ELSE IF Contains(arg, " ") THEN Positional
             ELSE Optional(0, arg, None)

ParseOk(token) == [status |-> "ok", token |-> token, message |-> "",
                   exit_code |-> 0]

ParseHelp == [status |-> "help", token |-> None, message |-> "help",
              exit_code |-> 0]

\* parser.error(): prints the usage message to stderr and exits with status 2.
ParseError(msg) == [status |-> "error", token |-> None, message |-> msg,
                    exit_code |-> 2]

\* argparse._parse_known_args followed by the checks of parse_args, for a
\* parser without positional arguments: words are consumed left to right,
\* each option's action is taken as soon as the option is consumed, and
\* the required-option and unrecognized-argument checks come last.
\* token is the namespace's token attribute, seen whether a required
\* action was taken, extras the number of unrecognized words so far.
RECURSIVE consume(_, _, _, _, _, _)
consume(p, a, i, token, seen, extras) ==
    IF i > Len(a)
    THEN IF \E k \in DOMAIN p : p[k].required /\ ~seen
         THEN ParseError("the following arguments are required")
         ELSE IF extras > 0 THEN ParseError("unrecognized arguments")
         ELSE ParseOk(token)
    ELSE LET t == parse_optional(p, a[i])
         IN  IF t.kind = "A" \/ t.action = 0
             THEN consume(p, a, i + 1, token, seen, extras + 1)
             ELSE LET action == p[t.action]
                  IN  IF action.nargs = 0
                      THEN IF t.explicit_arg.has
                           THEN ParseError("ignored explicit argument")
                           ELSE IF action.kind = "help" THEN ParseHelp
                           ELSE consume(p, a, i + 1, token, seen, extras)
                      ELSE IF t.explicit_arg.has
                           THEN consume(p, a, i + 1, Some(t.explicit_arg.val),
                                        TRUE, extras)
                           ELSE IF i + 1 <= Len(a)
                                   /\ parse_optional(p, a[i + 1]).kind = "A"
                                THEN consume(p, a, i + 2, Some(a[i + 1]), TRUE, extras)
                                ELSE ParseError("expected one argument")

\* parser.parse_args(): ambiguous abbreviations are reported while the
\* words are classified, before any action is taken.
parse_args(p, a) ==
    IF \E i \in DOMAIN a : parse_optional(p, a[i]).kind = "ambiguous"
    THEN ParseError("ambiguous option")
    ELSE consume(p, a, 1, None, FALSE, 0)

----------------------------------------------------------------------------
(* The external SDK, as far as the script observes it *)

NoOutput == [kind |-> "", detail |-> ""]

\* Variant: another channel name.
SaveAccountCall_wrong_channel(token) ==
    [channel |-> "ibm_cloud", token |-> token, overwrite |-> TRUE]

\* Variant: overwrite left at its default, False.
SaveAccountCall_no_overwrite(token) ==
    [channel |-> "ibm_quantum", token |-> token, overwrite |-> FALSE]

\* The keyword arguments of the call on line 9.
SaveAccountCall(token) ==
    [channel |-> "ibm_quantum", token |-> token, overwrite |-> TRUE]

\* What QiskitRuntimeService.save_account persists when it returns.
SavedAccount(call) == Some([channel |-> call.channel, token |-> call.token])

\* save_account refuses to replace a saved account unless overwrite is set.
SaveRefused(acct, call) == acct.has /\ ~call.overwrite

\* The exceptions the call may raise with the account store in state acct.
SaveRaisable(acct, call) ==
    Exceptions \cup (IF SaveRefused(acct, call) THEN {AccountAlreadyExistsError} ELSE {})

----------------------------------------------------------------------------
(* The script *)

\* Variant: the body is not guarded by the __main__ test.
IsMain_always(n) == TRUE

IsMain(n) == n = "__main__"

Launch(n, a) ==
    /\ name' = n
    /\ argv' = a
    /\ pc' = "start"
    /\ parser' = <<>>
    /\ args' = None
    /\ calls' = <<>>
    /\ exit_code' = <<>>
    /\ stdout' = NoOutput
    /\ stderr' = NoOutput
    /\ raised' = ""

Init ==
    /\ run = 1
    /\ account = None
    /\ \E n \in ModuleNames, a \in Argvs :
          /\ name = n
          /\ argv = a
    /\ pc = "start"
    /\ parser = <<>>
    /\ args = None
    /\ calls = <<>>
    /\ exit_code = <<>>
    /\ stdout = NoOutput
    /\ stderr = NoOutput
    /\ raised = ""

\* Lines 1-2: the import statements.
Import ==
    /\ pc = "start"
    /\ pc' = "imported"
    /\ UNCHANGED <<run, name, argv, parser, args, calls, account,
                   exit_code, stdout, stderr, raised>>

\* Line 4: if __name__ == "__main__"; otherwise the module body is over.
MainGuard ==
    /\ pc = "imported"
    /\ pc' = IF IsMain(name) THEN "main" ELSE "loaded"
    /\ UNCHANGED <<run, name, argv, parser, args, calls, account,
                   exit_code, stdout, stderr, raised>>

\* Line 5: parser = argparse.ArgumentParser()
CreateParser ==
    /\ pc = "main"
    /\ parser' = ArgumentParser
    /\ pc' = "parser_created"
    /\ UNCHANGED <<run, name, argv, args, calls, account,
                   exit_code, stdout, stderr, raised>>

\* Line 6: parser.add_argument("--token", ..., required=True)
AddArgument ==
    /\ pc = "parser_created"
    /\ parser' = add_argument(parser)
    /\ pc' = "args_declared"
    /\ UNCHANGED <<run, name, argv, args, calls, account,
                   exit_code, stdout, stderr, raised>>

\* Variant: parse errors are not fatal (as with parse_known_args or
\* exit_on_error=False): the script goes on with whatever was parsed.
ParseArgs_lenient ==
    /\ pc = "args_declared"
    /\ LET r == parse_args(parser, argv)
       IN  /\ args' = r.token
           /\ pc' = IF r.status = "help" THEN "exited" ELSE "parsed"
           /\ exit_code' = IF r.status = "help" THEN <<r.exit_code>> ELSE <<>>
           /\ stdout' = IF r.status = "help" THEN [kind |-> "help", detail |-> ""]
                        ELSE stdout
           /\ stderr' = stderr
    /\ UNCHANGED <<run, name, argv, parser, calls, account, raised>>

\* Line 7: args = parser.parse_args().  Help is printed to stdout and the
\* process exits 0; a usage error is printed to stderr and the process
\* exits 2; otherwise args.token holds the parsed value.
ParseArgs ==
    /\ pc = "args_declared"
    /\ LET r == parse_args(parser, argv)
       IN  /\ args' = r.token
           /\ pc' = IF r.status = "ok" THEN "parsed" ELSE "exited"
           /\ exit_code' = IF r.status = "ok" THEN <<>> ELSE <<r.exit_code>>
           /\ stdout' = IF r.status = "help" THEN [kind |-> "help", detail |-> ""]
                        ELSE stdout
           /\ stderr' = IF r.status = "error"
                        THEN [kind |-> "usage", detail |-> r.message]
                        ELSE stderr
    /\ UNCHANGED <<run, name, argv, parser, calls, account, raised>>

\* Variant: an empty token is rejected locally with a usage error.
CallSaveAccount_validating ==
    /\ pc = "parsed"
    /\ IF args.val = <<>>
       THEN /\ pc' = "exited"
            /\ exit_code' = <<2>>
            /\ stderr' = [kind |-> "usage", detail |-> "empty token"]
            /\ calls' = calls
       ELSE /\ pc' = "in_save"
            /\ calls' = Append(calls, SaveAccountCall(args.val))
            /\ UNCHANGED <<exit_code, stderr>>
    /\ UNCHANGED <<run, name, argv, parser, args, account, stdout, raised>>

\* Line 9: the call of QiskitRuntimeService.save_account is made.
CallSaveAccount ==
    /\ pc = "parsed"
    /\ calls' = Append(calls, SaveAccountCall(args.val))
    /\ pc' = "in_save"
    /\ UNCHANGED <<run, name, argv, parser, args, account,
                   exit_code, stdout, stderr, raised>>

\* The external call returns: the account is persisted.
SaveAccountReturns ==
    /\ pc = "in_save"
    /\ ~SaveRefused(account, calls[Len(calls)])
    /\ account' = SavedAccount(calls[Len(calls)])
    /\ pc' = "returned"
    /\ UNCHANGED <<run, name, argv, parser, args, calls,
                   exit_code, stdout, stderr, raised>>

\* Variant: the call is wrapped in a retry loop.
SaveAccountRaises_retry ==
    /\ pc = "in_save"
    /\ \E e \in SaveRaisable(account, calls[Len(calls)]) : raised' = e
    /\ pc' = "parsed"
    /\ UNCHANGED <<run, name, argv, parser, args, calls, account,
                   exit_code, stdout, stderr>>

\* The external call raises: nothing is persisted, and since line 9 is not
\* inside a try statement the exception leaves the module body.
SaveAccountRaises ==
    /\ pc = "in_save"
    /\ \E e \in SaveRaisable(account, calls[Len(calls)]) : raised' = e
    /\ pc' = "raising"
    /\ UNCHANGED <<run, name, argv, parser, args, calls, account,
                   exit_code, stdout, stderr>>

\* End of the module body: the interpreter exits with status 0.
ExitNormally ==
    /\ pc = "returned"
    /\ exit_code' = <<0>>
    /\ pc' = "exited"
    /\ UNCHANGED <<run, name, argv, parser, args, calls, account,
                   stdout, stderr, raised>>

\* Variant: the exception is caught and swallowed.
ExitUnhandled_swallowed ==
    /\ pc = "raising"
    /\ exit_code' = <<0>>
    /\ pc' = "exited"
    /\ UNCHANGED <<run, name, argv, parser, args, calls, account,
                   stdout, stderr, raised>>

\* Variant: on failure the script removes the saved account itself.
ExitUnhandled_cleanup ==
    /\ pc = "raising"
    /\ stderr' = [kind |-> "traceback", detail |-> raised]
    /\ exit_code' = <<1>>
    /\ pc' = "exited"
    /\ account' = None
    /\ UNCHANGED <<run, name, argv, parser, args, calls, stdout, raised>>

\* An uncaught exception: the interpreter prints the traceback, which ends
\* with the exception as raised, and exits with status 1.
ExitUnhandled ==
    /\ pc = "raising"
    /\ stderr' = [kind |-> "traceback", detail |-> raised]
    /\ exit_code' = <<1>>
    /\ pc' = "exited"
    /\ UNCHANGED <<run, name, argv, parser, args, calls, account,
                   stdout, raised>>

\* The process is gone: its memory and its output streams go with it, and
\* only the account store remains.
ProcessEnds ==
    /\ pc \in {"exited", "loaded"}
    /\ run < MaxRuns
    /\ pc' = "idle"
    /\ name' = ""
    /\ argv' = <<>>
    /\ parser' = <<>>
    /\ args' = None
    /\ calls' = <<>>
    /\ exit_code' = <<>>
    /\ stdout' = NoOutput
    /\ stderr' = NoOutput
    /\ raised' = ""
    /\ UNCHANGED <<run, account>>

\* The file is run, or loaded, once more, with the account store as the
\* earlier runs left it.
NextRun ==
    /\ pc = "idle"
    /\ run' = run + 1
    /\ \E n \in ModuleNames, a \in Argvs : Launch(n, a)
    /\ UNCHANGED account

Step ==
    \/ Import
    \/ MainGuard
    \/ CreateParser
    \/ AddArgument
    \/ ParseArgs
    \/ CallSaveAccount
    \/ SaveAccountReturns
    \/ SaveAccountRaises
    \/ ExitNormally
    \/ ExitUnhandled

Next ==
    \/ Import
    \/ MainGuard
    \/ CreateParser
    \/ AddArgument
    \/ ParseArgs
    \/ CallSaveAccount
    \/ SaveAccountReturns
    \/ SaveAccountRaises
    \/ ExitNormally
    \/ ExitUnhandled
    \/ ProcessEnds
    \/ NextRun

Spec == Init /\ [][Next]_vars

\* The interpreter runs the module body to its end, and the external call
\* is assumed to return or raise.
FairSpec == Spec /\ WF_vars(Step)

----------------------------------------------------------------------------
(* Properties *)

Main == "__main__"

ExpectedCall(t) == [channel |-> "ibm_quantum", token |-> t, overwrite |-> TRUE]

\* Words that name the token option, in full, abbreviated, or with "=".
TokenWords == {w \in Words : StartsWith(w, <<"-", "-", "t">>)}

\* Words that are exactly a help flag.
HelpWords == {W_h, W_help}

\* Words that do not look like an option: they do not start with "-", or
\* they are negative numbers.
PlainValues == {w \in Words : w = <<>> \/ w[1] # "-" \/ NegativeNumberLike(w)}

\* Words that look like an option but name none of the parser's options.
UnknownFlags == {W_x, W_bogus}

NoTokenArgument(a) == \A i \in DOMAIN a : a[i] \notin TokenWords

HelpRequested(a) == \E i \in DOMAIN a : a[i] \in HelpWords

\* C1 as stated: whenever a run was given --token followed by a string t,
\* the finished run has made exactly one save call, with token t, channel
\* "ibm_quantum" and overwrite true.
C1_Original ==
    \A i \in 1..(Len(argv) - 1) :
        (name = Main /\ pc = "exited" /\ argv[i] = W_token)
            => calls = <<ExpectedCall(argv[i + 1])>>

\* C1 amended: when --token is followed by a string t that does not look
\* like an option (or t is given as --token=t) and nothing else is on the
\* command line, the finished run has made exactly one save call, with
\* token t unchanged, channel "ibm_quantum" and overwrite true; in general a
\* finished run has made exactly that one call with the parsed value if
\* parsing succeeded, and no call if it printed help or a usage error.
C1_ExactlyOneSaveCall ==
    (name = Main /\ pc = "exited") =>
        /\ \A t \in PlainValues :
              argv = <<W_token, t>> => calls = <<ExpectedCall(t)>>
        /\ argv = <<W_token_eq_ab>> => calls = <<ExpectedCall(W_ab)>>
        /\ args.has => calls = <<ExpectedCall(args.val)>>
        /\ ~args.has => calls = <<>>

C1_Witness ==
    /\ name = Main
    /\ pc = "exited"
    /\ argv = <<W_token, W_neg5>>
    /\ Len(calls) = 1

\* C2 as stated: a finished run that was given no token argument has a
\* non-zero exit status and has made no save call.
C2_Original ==
    (name = Main /\ pc = "exited" /\ NoTokenArgument(argv)) =>
        /\ exit_code # <<0>>
        /\ calls = <<>>

\* C2 amended: a finished run that was given no token argument has made no
\* save call; it ended in parsing, with the usage error and status 2,
\* unless a help flag was given, and then possibly with the help text and
\* status 0.
C2_NoTokenNoCall ==
    (name = Main /\ pc = "exited" /\ NoTokenArgument(argv)) =>
        /\ calls = <<>>
        /\ ~args.has
        /\ \/ exit_code = <<2>> /\ stderr.kind = "usage"
           \/ exit_code = <<0>> /\ stdout.kind = "help" /\ HelpRequested(argv)
        /\ ~HelpRequested(argv) => exit_code = <<2>>

C2_Witness ==
    /\ name = Main
    /\ pc = "exited"
    /\ argv = <<>>
    /\ exit_code = <<2>>

\* C3: when the save call raises, the exception leaves the script as it was
\* raised: the run ends with status 1 and a traceback naming that very
\* exception, nothing was persisted by the failed call, and the call is
\* made at most once per run (a raise is never followed by another call).
C3_FailurePropagates ==
    /\ Len(calls) <= 1
    /\ pc = "raising" =>
          /\ raised \in Exceptions
          /\ Len(calls) = 1
          /\ ENABLED ExitUnhandled
          /\ ~ENABLED CallSaveAccount
    /\ (pc = "exited" /\ raised # "") =>
          /\ exit_code = <<1>>
          /\ stderr = [kind |-> "traceback", detail |-> raised]
          /\ Len(calls) = 1

C3_Witness ==
    /\ pc = "exited"
    /\ raised = "OSError"
    /\ exit_code = <<1>>

\* C4 as stated: the exit status is 0 exactly when the token was parsed and
\* the save call returned without raising.
C4_Original ==
    (name = Main /\ pc = "exited") =>
        (exit_code = <<0>> <=> (args.has /\ Len(calls) = 1 /\ raised = ""))

\* C4 amended: the exit status is 0 exactly when either the token was
\* parsed and the save call returned without raising, or the parser
\* printed its help text; it is 2 on a usage error (in particular when the
\* required argument is missing and no help flag is given) and 1 when the
\* save call raises.
C4_ExitStatus ==
    (name = Main /\ pc = "exited") =>
        /\ exit_code = <<0>> <=>
              \/ args.has /\ Len(calls) = 1 /\ raised = ""
              \/ stdout.kind = "help" /\ calls = <<>>
        /\ exit_code = <<2>> <=> stderr.kind = "usage"
        /\ exit_code = <<1>> <=> raised # ""
        /\ exit_code \in {<<0>>, <<1>>, <<2>>}
        /\ (NoTokenArgument(argv) /\ ~HelpRequested(argv)) => exit_code = <<2>>

C4_Witness ==
    /\ name = Main
    /\ pc = "exited"
    /\ exit_code = <<0>>
    /\ stdout.kind = "help"

\* C5 as stated: once the parser is set up its only option is --token, and
\* every finished run either made the save call or ended in a usage error.
C5_Original ==
    /\ pc \in {"args_declared", "parsed", "in_save", "returned", "raising", "exited"}
          => OptionStrings(parser) = {W_token}
    /\ (name = Main /\ pc = "exited")
          => (Len(calls) = 1 \/ stderr.kind = "usage")

\* C5 amended: once the parser is set up its options are --token, required
\* and taking one string, and the help flag -h/--help that argparse adds;
\* every finished run either printed help and exited 0 without a call, or
\* ended in a usage error without a call, or parsed the token and made the
\* save call; a command line with any other flag never leads to a call.
C5_CliSurface ==
    /\ pc \in {"args_declared", "parsed", "in_save", "returned", "raising", "exited"} =>
          /\ OptionStrings(parser) = {W_token, W_h, W_help}
          /\ \A k \in DOMAIN parser :
                /\ parser[k].required <=> parser[k].option_strings = {W_token}
                /\ parser[k].nargs = (IF parser[k].option_strings = {W_token} THEN 1 ELSE 0)
    /\ (name = Main /\ pc = "exited") =>
          \/ stdout.kind = "help" /\ exit_code = <<0>> /\ calls = <<>>
                /\ stderr.kind = "" /\ HelpRequested(argv)
          \/ stderr.kind = "usage" /\ exit_code = <<2>> /\ calls = <<>>
                /\ stdout.kind = ""
          \/ args.has /\ Len(calls) = 1 /\ stdout.kind = ""
                /\ stderr.kind # "usage" /\ ~NoTokenArgument(argv)
    /\ (\E i \in DOMAIN argv : argv[i] \in UnknownFlags) => calls = <<>>

C5_Witness ==
    /\ name = Main
    /\ pc = "exited"
    /\ argv = <<W_token, W_ab, W_bogus>>
    /\ exit_code = <<2>>

\* C6: the script's only effect outside the process is the one delegated
\* call: the account store changes only in the step in which that call
\* returns, and then to what the call was given; the list of external calls
\* grows only by the save call made after a successful parse; and a step
\* in which parsing fails leaves the account store and the calls untouched.
C6_OnlyDelegatedEffect ==
    [][ /\ account' # account =>
              /\ pc = "in_save" /\ pc' = "returned"
              /\ account' = Some([channel |-> "ibm_quantum", token |-> args.val])
        /\ (calls' # calls /\ calls' # <<>>) =>
              /\ pc = "parsed" /\ pc' = "in_save"
              /\ calls = <<>>
              /\ calls' = <<ExpectedCall(args.val)>>
        /\ (pc = "args_declared" /\ pc' = "exited") =>
              /\ account' = account
              /\ calls' = <<>>
      ]_vars

C6_Witness ==
    /\ name = Main
    /\ pc = "exited"
    /\ stderr.kind = "usage"
    /\ account = Some([channel |-> "ibm_quantum", token |-> W_ab])

\* C7: every value the parser accepted for the token option, the empty
\* string included, is forwarded as it is: once parsing has succeeded the
\* save call is the only next step, and a finished run has made the call
\* with exactly the parsed value; in particular --token "" ends with one
\* call whose token is the empty string.
C7_NoValidation ==
    /\ pc = "parsed" =>
          /\ args.has
          /\ ENABLED CallSaveAccount
    /\ (pc \in {"in_save", "returned", "raising", "exited"} /\ args.has) =>
          /\ Len(calls) = 1
          /\ calls[1].token = args.val
    /\ (name = Main /\ pc = "exited") =>
          /\ argv = <<W_token, W_empty>> => calls = <<ExpectedCall(<<>>)>>
          /\ \A t \in PlainValues :
                argv = <<W_tok, t>> => (Len(calls) = 1 /\ calls[1].token = t)

C7_Witness ==
    /\ name = Main
    /\ pc = "exited"
    /\ argv = <<W_token, W_empty>>
    /\ Len(calls) = 1
    /\ calls[1].token = <<>>

PcOrder ==
    {<<"start", "imported">>, <<"imported", "main">>, <<"imported", "loaded">>,
     <<"main", "parser_created">>, <<"parser_created", "args_declared">>,
     <<"args_declared", "parsed">>, <<"args_declared", "exited">>,
     <<"parsed", "in_save">>, <<"in_save", "returned">>, <<"in_save", "raising">>,
     <<"returned", "exited">>, <<"raising", "exited">>,
     <<"exited", "idle">>, <<"loaded", "idle">>, <<"idle", "start">>}

\* C8: a run started as the main program always eventually exits, given
\* that the save call returns or raises; its steps follow the one order
\* start, parse, at most one save call, exit; and a save call has been made
\* only after parsing succeeded.
C8_RunToCompletion ==
    /\ [](name = Main /\ pc = "start" => <>(pc = "exited"))
    /\ [][(<<pc, pc'>> \in PcOrder)]_pc
    /\ [](calls # <<>> => (args.has /\ Len(calls) = 1
                             /\ pc \in {"in_save", "returned", "raising", "exited"}))

C8_Witness ==
    /\ name = Main
    /\ pc = "exited"
    /\ Len(calls) = 1
    /\ exit_code = <<0>>

\* C9: every save call asks for overwrite; a saved account never keeps the
\* script from making the call nor the call from returning, and never
\* makes it fail as already existing; and after every run whose save call
\* succeeded the account store holds that run's token, so that after
\* successive successful runs it holds the token of the last.
C9_OverwriteLatestWins ==
    /\ \A i \in DOMAIN calls : calls[i].overwrite
    /\ pc = "parsed" => ENABLED CallSaveAccount
    /\ pc = "in_save" =>
          /\ ENABLED SaveAccountReturns
          /\ calls[1].token = args.val
    /\ raised # AccountAlreadyExistsError
    /\ (pc = "returned" \/ (pc = "exited" /\ args.has /\ raised = "")) =>
          account = Some([channel |-> "ibm_quantum", token |-> args.val])

C9_Witness ==
    /\ run = 2
    /\ pc = "exited"
    /\ exit_code = <<0>>
    /\ argv = <<W_token, W_neg5>>
    /\ account = Some([channel |-> "ibm_quantum", token |-> W_neg5])

\* C10: when the file is loaded under any name but "__main__", no parser is
\* built, no arguments are parsed, no save call is made and nothing is
\* written to the output streams: the module body ends after the test.
C10_MainGuard ==
    (name \in ModuleNames /\ name # Main) =>
        /\ pc \in {"start", "imported", "loaded"}
        /\ parser = <<>>
        /\ args = None
        /\ calls = <<>>
        /\ exit_code = <<>>
        /\ stdout = NoOutput
        /\ stderr = NoOutput

C10_Witness ==
    /\ name = "save_credentials"
    /\ pc = "loaded"
    /\ argv = <<W_token, W_ab>>

====
